---------------------------- MODULE Spec2Model ----------------------------
(***************************************************************************)
(* A model of break_axes.py: the piecewise scale built by create_scale     *)
(* (validation, _forward, _inverse) and the operations that mutate a       *)
(* matplotlib Axes (scale_axis, scale_axes, add_broken_line,               *)
(* add_broken_line_in_axis, clip_axes, broken_and_clip_axes).              *)
(*                                                                         *)
(* Numbers are exact rationals <<n, d>> with d > 0 in lowest terms, so      *)
(* that the multiplications of _forward and the divisions of _inverse are  *)
(* computed, not assumed to cancel.  Python floats round; the model is the *)
(* code's arithmetic without rounding error.  NumPy arrays are modelled    *)
(* element by element: every masked assignment res[cond] = ... acts on     *)
(* each element independently.                                             *)
(***************************************************************************)
EXTENDS Integers, Sequences, FiniteSets, TLC

VARIABLES
    interval,   \* the argument of create_scale: a list of (a, b, f)
    pc,         \* "start" | "scaled" | "raised": where the create_scale run is
    scale,      \* what create_scale returned: its closure (x0, factor), or the error
    fwd,        \* the last _forward call: [x, y], y = _forward(x)
    prev,       \* the _forward call before the last one
    inv,        \* _inverse applied to fwd.y, when it has been applied
    ax,         \* the matplotlib Axes: scales, line artists, clip paths
    pre,        \* the Axes as it was before the last call
    call,       \* the last call on the Axes: the function and its arguments
    out         \* what the last call did: the exception raised or the value returned

scaleVars == <<interval, pc, scale, fwd, prev, inv>>

axesVars == <<ax, pre, call, out>>

vars == <<interval, pc, scale, fwd, prev, inv, ax, pre, call, out>>

-----------------------------------------------------------------------------
(* Bounds of the model *)

MaxIntervals == 2

MaxCoord == 3

\* the longest list of break positions
MaxBreaks == 2

-----------------------------------------------------------------------------
(* Exact rational arithmetic: the float operations of the code *)

RECURSIVE GCD(_, _)
GCD(a, b) == IF b = 0 THEN a ELSE GCD(b, a % b)

Abs(n) == IF n < 0 THEN -n ELSE n

Norm(n, d) ==
    LET g == GCD(Abs(n), Abs(d))
        s == IF d < 0 THEN -1 ELSE 1
    IN  <<(s * n) \div g, (s * d) \div g>>

Rat(n) == <<n, 1>>

RAdd(p, q) == Norm(p[1] * q[2] + q[1] * p[2], p[2] * q[2])

RSub(p, q) == Norm(p[1] * q[2] - q[1] * p[2], p[2] * q[2])

RMul(p, q) == Norm(p[1] * q[1], p[2] * q[2])

\* a slip in _inverse: the offset multiplied by the factor, not divided
RDiv_Multiply(p, q) == Norm(p[1] * q[1], p[2] * q[2])

RDiv(p, q) == Norm(p[1] * q[2], p[2] * q[1])

\* Comparisons by cross-multiplication; they are also right for NegInf.
RLt(p, q) == p[1] * q[2] < q[1] * p[2]

RLe(p, q) == p[1] * q[2] <= q[1] * p[2]

\* float("-inf"): below every number
NegInf == <<-1, 0>>

Zero == Rat(0)

One == Rat(1)

-----------------------------------------------------------------------------
(* The inputs of create_scale *)

Coords == 0 .. MaxCoord

\* non-positive (-1, 0) and positive (1/2, 2) scale factors
Factors == {<<-1, 1>>, <<0, 1>>, <<1, 2>>, <<2, 1>>}

Triples == {<<Rat(a), Rat(b), f>> : a \in Coords, b \in Coords, f \in Factors}

IntervalLists == UNION {[1 .. n -> Triples] : n \in 1 .. MaxIntervals}

\* the sample points handed to _forward: every half from -1 to MaxCoord + 1
Samples == {<<n, 2>> : n \in {k \in -2 .. 2 * MaxCoord + 2 : k % 2 # 0}}
               \cup {Rat(n) : n \in -1 .. MaxCoord + 1}

-----------------------------------------------------------------------------
(* create_scale: the validation loop and the two lists it builds *)

ValueError(msg) == [ok |-> FALSE, error |-> msg, x0 |-> <<>>, factor |-> <<>>]

\* a slip in the factor list: factor.append(f) for factor.insert(-1, f)
InsertBeforeLast_Append(lst, f) == lst \o <<f>>

\* list.insert(-1, f): before the last element (at the front of an empty list)
InsertBeforeLast(lst, f) ==
    IF lst = <<>> THEN <<f>>
    ELSE SubSeq(lst, 1, Len(lst) - 1) \o <<f, lst[Len(lst)]>>

\* a slip in the validation: a <= b for a < b
BadInterval_AllowsPoint(a, b, _prev_b) == ~(RLe(a, b) /\ RLe(_prev_b, a))

\* the loop condition that rejects an interval (line 78)
BadInterval(a, b, _prev_b) == ~(RLt(a, b) /\ RLe(_prev_b, a))

\* the loop condition that rejects a factor (line 80)
BadFactor(f) == RLe(f, Zero)

RECURSIVE create_scale_loop(_, _, _, _, _)
create_scale_loop(ivs, i, x0, factor, _prev_b) ==
    IF i > Len(ivs) THEN [ok |-> TRUE, error |-> "", x0 |-> x0, factor |-> factor]
    ELSE LET a == ivs[i][1]
             b == ivs[i][2]
             f == ivs[i][3]
         IN  IF BadInterval(a, b, _prev_b)
             THEN ValueError("Input interval must be non-overlapping and sorted.")
             ELSE IF BadFactor(f)
             THEN ValueError("c must be positive")
             ELSE create_scale_loop(
                      ivs, i + 1,
                      IF RLt(_prev_b, a) THEN x0 \o <<a, b>> ELSE x0 \o <<b>>,
                      IF RLt(_prev_b, a) THEN factor \o <<f, One>>
                                         ELSE InsertBeforeLast(factor, f),
                      b)

create_scale(ivs) == create_scale_loop(ivs, 1, <<>>, <<>>, NegInf)

-----------------------------------------------------------------------------
(* _forward and _inverse, on one element of the array *)

\* a slip in the tail: the factor of the last interval, factor[-2]
LastFactor_OfLastInterval(s) == s.factor[Len(s.factor) - 1]

\* the slope used past the last breakpoint: factor[-1]
LastFactor(s) == s.factor[Len(s.factor)]

\* a slip in the masks: [lo, hi) for (lo, hi]
InPiece_ClosedLeft(v, lo, hi) == RLe(lo, v) /\ RLt(v, hi)

\* membership of the half-open piece (lo, hi]
InPiece(v, lo, hi) == RLt(lo, v) /\ RLe(v, hi)

RECURSIVE forward_loop(_, _, _, _, _)
forward_loop(s, x, n, ymin, res) ==
    IF n > Len(s.x0) - 1
    THEN LET xmax == s.x0[Len(s.x0)]
         IN  IF RLt(xmax, x)
             THEN RAdd(RMul(RSub(x, xmax), LastFactor(s)), ymin)
             ELSE res
    ELSE LET xmin == s.x0[n]
             xmax == s.x0[n + 1]
         IN  forward_loop(
                 s, x, n + 1,
                 RAdd(ymin, RMul(RSub(xmax, xmin), s.factor[n])),
                 IF InPiece(x, xmin, xmax)
                 THEN RAdd(RMul(RSub(x, xmin), s.factor[n]), ymin)
                 ELSE res)

_forward(s, x) == forward_loop(s, x, 1, s.x0[1], x)

RECURSIVE inverse_loop(_, _, _, _, _)
inverse_loop(s, y, n, ymin, res) ==
    IF n > Len(s.x0) - 1
    THEN LET xmax == s.x0[Len(s.x0)]
             ymax == ymin
         IN  IF RLt(ymax, y)
             THEN RAdd(RDiv(RSub(y, ymax), LastFactor(s)), xmax)
             ELSE res
    ELSE LET xmin == s.x0[n]
             xmax == s.x0[n + 1]
             ymax == RAdd(ymin, RMul(RSub(xmax, xmin), s.factor[n]))
         IN  inverse_loop(
                 s, y, n + 1, ymax,
                 IF InPiece(y, ymin, ymax)
                 THEN RAdd(RDiv(RSub(y, ymin), s.factor[n]), xmin)
                 ELSE res)

_inverse(s, y) == inverse_loop(s, y, 1, s.x0[1], y)

-----------------------------------------------------------------------------
(* Python values handed to the Axes functions: None, a number, a list *)

None == [tag |-> "None", v |-> <<>>]

Scalar(n) == [tag |-> "scalar", v |-> <<n>>]

List(seq) == [tag |-> "list", v |-> seq]

IsList(a) == a.tag = "list"

IsScalar(a) == a.tag = "scalar"

\* bool(a): None, 0 and [] are false
Truthy(a) ==
    CASE a.tag = "None" -> FALSE
      [] a.tag = "scalar" -> a.v[1] # 0
      [] OTHER -> a.v # <<>>

-----------------------------------------------------------------------------
(* The Axes.  Its view limits are fixed before the calls, as the functions  *)
(* require.  transData is not computed: the result of offset_data_point is *)
(* kept as the data coordinate and the display offset (in points) applied  *)
(* to it, for each of the two directions.                                  *)

Edges == {"bottom", "top", "left", "right"}

\* the children of a fresh Axes that are not spines: XAxis, YAxis, the title
\* Text and the background patch
Others == {"xaxis", "yaxis", "title", "patch"}

\* ax.get_xlim(), ax.get_ylim()
XLim == <<0, 10>>

YLim == <<20, 30>>

\* Path(vertices, codes); NoPath: no clip path set
NoPath == [vertices |-> <<>>, codes |-> <<>>]

LinearScale == [name |-> "linear", x0 |-> <<>>, factor |-> <<>>]

\* fig, ax = plt.subplots(); ax.set(xlim=..., ylim=...)
NewAxes ==
    [xscale |-> LinearScale,
     yscale |-> LinearScale,
     lines |-> <<>>,
     spines |-> [e \in Edges |-> NoPath],
     others |-> [o \in Others |-> NoPath]]

\* the default gap, dx, dy of the marker and clip functions, in points
DefaultGap == 5

DefaultDx == 3

DefaultDy == 3

\* a data coordinate displaced by o points on the display
Shifted(c, o) == [c |-> c, o |-> o]

offset_data_point(x, y, dx_pt, dy_pt) == <<Shifted(x, dx_pt), Shifted(y, dy_pt)>>

Neg(q) == RSub(Zero, q)

Half(q) == RDiv(q, Rat(2))

Returned(val) == [raised |-> "", val |-> val]

Raised(exc) == [raised |-> exc, val |-> <<>>]

\* the four points P0 .. P3 around (x, y) (lines 268-272)
broken_points(x, y, gap_x, gap_y, dx, dy) ==
    <<offset_data_point(x, y, RSub(Neg(gap_x), dx), RSub(Neg(gap_y), dy)),
      offset_data_point(x, y, RAdd(Neg(gap_x), dx), RAdd(Neg(gap_y), dy)),
      offset_data_point(x, y, RSub(gap_x, dx), RSub(gap_y, dy)),
      offset_data_point(x, y, RAdd(gap_x, dx), RAdd(gap_y, dy))>>

\* a slip in get_broken_points: the gap put on the other component
get_broken_points_gap_across(x, y, axis, gap, dx, dy) ==
    IF axis \notin {"x", "y"} THEN Raised("ValueError")
    ELSE IF axis = "x" THEN Returned(broken_points(x, y, Zero, Half(gap), dx, dy))
    ELSE Returned(broken_points(x, y, Half(gap), Zero, dx, dy))

get_broken_points(x, y, axis, gap, dx, dy) ==
    IF axis \notin {"x", "y"} THEN Raised("ValueError")
    ELSE IF axis = "x" THEN Returned(broken_points(x, y, Half(gap), Zero, dx, dy))
    ELSE Returned(broken_points(x, y, Zero, Half(gap), dx, dy))

\* the branches that return a list of points (lines 322-333); a pair of
\* lists reaches none of them
xy2points_branches(x, y) ==
    IF IsScalar(x) /\ IsScalar(y) THEN Returned(<<<<x.v[1], y.v[1]>>>>)
    ELSE IF IsList(x) /\ IsScalar(y)
    THEN Returned([i \in 1 .. Len(x.v) |-> <<x.v[i], y.v[1]>>])
    ELSE IF IsScalar(x) /\ IsList(y)
    THEN Returned([i \in 1 .. Len(y.v) |-> <<x.v[1], y.v[i]>>])
    ELSE Raised("ValueError")

xy2points(x, y) ==
    IF IsList(x) /\ IsList(y) /\ Len(x.v) # Len(y.v) THEN Raised("AssertionError")
    ELSE xy2points_branches(x, y)

\* a Line2D made by ax.plot, with the keyword defaults of add_broken_line
Line2D(p, q) ==
    [xdata |-> <<p[1], q[1]>>, ydata |-> <<p[2], q[2]>>,
     color |-> "black", clip_on |-> FALSE, clip_path |-> NoPath]

\* the loop of add_broken_line: two lines per point, appended to ax.lines;
\* a pair holds the positions of its two lines in ax.lines
\* l1, l2 = ax.plot(x[:2], y[:2], x[2:], y[2:], **kwargs)
plot(a, pts) == [a EXCEPT !.lines = @ \o <<Line2D(pts[1], pts[2]), Line2D(pts[3], pts[4])>>]

RECURSIVE plot_markers(_, _, _, _, _, _, _, _)
plot_markers(a, points, i, axis, gap, dx, dy, results) ==
    IF i > Len(points) THEN [ax |-> a, raised |-> "", val |-> results]
    ELSE plot_markers(
             plot(a, get_broken_points(points[i][1], points[i][2], axis, gap, dx, dy).val),
             points, i + 1, axis, gap, dx, dy,
             Append(results, <<Len(a.lines) + 1, Len(a.lines) + 2>>))

\* add_broken_line once xy2points has answered
add_broken_line_at(a, points, axis, gap, dx, dy) ==
    IF points.raised # "" THEN [ax |-> a, raised |-> points.raised, val |-> <<>>]
    ELSE plot_markers(a, points.val, 1, axis, gap, dx, dy, <<>>)

add_broken_line(a, x, y, axis, gap, dx, dy) ==
    IF axis \notin {"x", "y"} THEN [ax |-> a, raised |-> "ValueError", val |-> <<>>]
    ELSE add_broken_line_at(a, xy2points(x, y), axis, gap, dx, dy)

\* one edge of add_broken_line_in_axis: the markers of the edge and its key in
\* the returned dict; nothing once an exception is on its way
edge_result(st, edge, r) ==
    IF r.raised # "" THEN [ax |-> r.ax, raised |-> r.raised, val |-> <<>>]
    ELSE [ax |-> r.ax, raised |-> "", val |-> st.val @@ (edge :> r.val)]

edge_markers(st, do, edge, x, y, axis, gap, dx, dy) ==
    IF st.raised # "" \/ ~do THEN st
    ELSE edge_result(st, edge, add_broken_line(st.ax, x, y, axis, gap, dx, dy))

add_broken_line_in_axis(a, x, y, which, gap, dx, dy) ==
    IF which \notin {"lower", "upper", "both"}
    THEN [ax |-> a, raised |-> "ValueError", val |-> <<>>]
    ELSE edge_markers(
          edge_markers(
           edge_markers(
            edge_markers([ax |-> a, raised |-> "", val |-> <<>>],
                         Truthy(x) /\ which \in {"lower", "both"}, "bottom",
                         x, Scalar(YLim[1]), "x", gap, dx, dy),
            Truthy(x) /\ which \in {"upper", "both"}, "top",
            x, Scalar(YLim[2]), "x", gap, dx, dy),
           Truthy(y) /\ which \in {"lower", "both"}, "left",
           Scalar(XLim[1]), y, "y", gap, dx, dy),
          Truthy(y) /\ which \in {"upper", "both"}, "right",
          Scalar(XLim[2]), y, "y", gap, dx, dy)

-----------------------------------------------------------------------------
(* The clip paths *)

\* y[0] if isinstance(y, list) else y, then float(...) in offset_data_point
FirstOf(a) ==
    IF IsList(a) THEN (IF a.v = <<>> THEN Raised("IndexError") ELSE Returned(a.v[1]))
    ELSE IF IsScalar(a) THEN Returned(a.v[1])
    ELSE Raised("TypeError")

\* y[-1] if isinstance(y, list) else y
LastOf(a) ==
    IF IsList(a) THEN (IF a.v = <<>> THEN Raised("IndexError") ELSE Returned(a.v[Len(a.v)]))
    ELSE IF IsScalar(a) THEN Returned(a.v[1])
    ELSE Raised("TypeError")

\* points_lst.extend(points), for one break point after the other
extend_points(p, rest) ==
    IF p.raised # "" THEN p
    ELSE IF rest.raised # "" THEN rest
    ELSE Returned(p.val \o rest.val)

\* the four vertices of every break point, one after the other (lines 488-490)
RECURSIVE notch_points(_, _, _, _, _, _)
notch_points(points, i, axis, gap, dx, dy) ==
    IF i > Len(points) THEN Returned(<<>>)
    ELSE extend_points(
             get_broken_points(points[i][1], points[i][2], axis, gap, dx, dy),
             notch_points(points, i + 1, axis, gap, dx, dy))

\* a slip in the rings: the four points in list order, a self-crossing ring
RingOrder_ListOrder == <<1, 2, 3, 4, 1>>

\* the order of the vertices of a ring: points 0, 1, 3, 2, 0 of its four
RingOrder == <<1, 2, 4, 3, 1>>

RingCodes == <<"MOVETO", "LINETO", "LINETO", "LINETO", "CLOSEPOLY">>

\* the rings of get_axis_clip_path: points 4i .. 4i+3 (lines 493-500)
RingsOf(points_lst) ==
    [vertices |->
         [k \in 1 .. 5 * (Len(points_lst) \div 4) |->
             points_lst[4 * ((k - 1) \div 5) + RingOrder[((k - 1) % 5) + 1]]],
     codes |->
         [k \in 1 .. 5 * (Len(points_lst) \div 4) |-> RingCodes[((k - 1) % 5) + 1]]]

\* the two extension points at each end (lines 474-477, 482-485)
end_points(isx, xlow, ylow, xhigh, yhigh, dx, dy, extend) ==
    IF isx
    THEN <<offset_data_point(xlow, ylow, RSub(Neg(extend), dx), Neg(dy)),
           offset_data_point(xlow, ylow, RAdd(Neg(extend), dx), dy),
           offset_data_point(xhigh, yhigh, RSub(extend, dx), Neg(dy)),
           offset_data_point(xhigh, yhigh, RAdd(extend, dx), dy)>>
    ELSE <<offset_data_point(xlow, ylow, Neg(dx), RSub(Neg(extend), dy)),
           offset_data_point(xlow, ylow, dx, RAdd(Neg(extend), dy)),
           offset_data_point(xhigh, yhigh, Neg(dx), RSub(extend, dy)),
           offset_data_point(xhigh, yhigh, dx, RAdd(extend, dy))>>

\* lines 487-501, given the extension points and the break points' vertices
axis_path(ends, notches) ==
    IF notches.raised # "" THEN Raised(notches.raised)
    ELSE Returned(RingsOf(<<ends[1], ends[2]>> \o notches.val \o <<ends[3], ends[4]>>))

\* lines 487-490, given the extension points and the answer of xy2points
axis_path_at(ends, points, axis, gap, dx, dy) ==
    IF points.raised # "" THEN Raised(points.raised)
    ELSE axis_path(ends, notch_points(points.val, 1, axis, gap, dx, dy))

\* lines 470-501, given the ends of the edge and dx, dy after += extend
axis_path_from(x, y, axis, gap, dx, dy, extend, xlow, ylow, xhigh, yhigh) ==
    IF xlow.raised # "" THEN Raised(xlow.raised)
    ELSE IF ylow.raised # "" THEN Raised(ylow.raised)
    ELSE axis_path_at(
             end_points(axis = "x", xlow.val, ylow.val, xhigh.val, yhigh.val,
                        dx, dy, extend),
             xy2points(x, y), axis, gap, dx, dy)

get_axis_clip_path(x, y, axis, gap, dx, dy, extend) ==
    IF axis = "x"
    THEN axis_path_from(x, y, axis, gap, RAdd(dx, extend), RAdd(dy, extend), extend,
                        Returned(XLim[1]), FirstOf(y), Returned(XLim[2]), LastOf(y))
    ELSE axis_path_from(x, y, axis, gap, RAdd(dx, extend), RAdd(dy, extend), extend,
                        FirstOf(x), Returned(YLim[1]), LastOf(x), Returned(YLim[2]))

\* a slip in the cuts: both sides of a cut at the break itself, no gap removed
cut_sides_at_break(cuts, half) ==
    [k \in 1 .. 2 * Len(cuts) |-> Shifted(cuts[(k + 1) \div 2], Zero)]

\* the two sides of the cut at each break: x - gap/2, x + gap/2
cut_sides(cuts, half) ==
    [k \in 1 .. 2 * Len(cuts) |->
        IF k % 2 = 1 THEN Shifted(cuts[(k + 1) \div 2], Neg(half))
        ELSE Shifted(cuts[k \div 2], half)]

\* [low, x_1 - gap/2, x_1 + gap/2, ..., high] (lines 534-540)
CutList(lim, cuts, gap) ==
    <<Shifted(lim[1], Zero)>> \o cut_sides(cuts, Half(gap)) \o <<Shifted(lim[2], Zero)>>

\* vertex j (0 .. 4) of the rectangle [x0, x1] x [y0, y1]: p0, p1, p2, p3, p0
rect_vertex(j, x0, x1, y0, y1) ==
    CASE j = 1 -> <<x1, y0>>
      [] j = 2 -> <<x1, y1>>
      [] j = 3 -> <<x0, y1>>
      [] OTHER -> <<x0, y0>>

\* vertex j of cell number r (x cells outside, y cells inside) of the grid
cell_vertex(r, j, xlst, ylst, ny) ==
    rect_vertex(j, xlst[2 * (r \div ny) + 1], xlst[2 * (r \div ny) + 2],
                   ylst[2 * (r % ny) + 1], ylst[2 * (r % ny) + 2])

\* lines 550-566: one closed rectangle per pair of an x chunk and a y chunk
grid_path(xlst, ylst, nx, ny) ==
    [vertices |->
         [k \in 1 .. 5 * nx * ny |-> cell_vertex((k - 1) \div 5, (k - 1) % 5, xlst, ylst, ny)],
     codes |-> [k \in 1 .. 5 * nx * ny |-> RingCodes[((k - 1) % 5) + 1]]]

\* iterating over x and y (lines 536, 544) needs two lists
get_axes_clip_path(x, y, gap) ==
    IF ~IsList(x) \/ ~IsList(y) THEN Raised("TypeError")
    ELSE Returned(grid_path(CutList(XLim, x.v, gap), CutList(YLim, y.v, gap),
                            Len(x.v) + 1, Len(y.v) + 1))

\* spines[edge].set_clip_path(p), unless building p raised
set_spine_clip(st, edge, p) ==
    IF p.raised # "" THEN [st EXCEPT !.raised = p.raised]
    ELSE [st EXCEPT !.ax.spines[edge] = p.val]

\* one spine of clip_axes: build the path of the edge and set it on the spine;
\* nothing once an exception is on its way
spine_clip(st, do, edge, x, y, axis, gap, dx, dy, extend) ==
    IF st.raised # "" \/ ~do THEN st
    ELSE set_spine_clip(st, edge, get_axis_clip_path(x, y, axis, gap, dx, dy, extend))

\* a slip in clip_axes: ax.patch is not skipped
ClippedOthers_WithPatch == Others \ {"title"}

\* the children that take the whole-axes clip path: not a Text, not a Spine,
\* not ax.patch (lines 752-757)
ClippedOthers == Others \ {"title", "patch"}

set_axes_clip(st, p) ==
    IF p.raised # "" THEN [st EXCEPT !.raised = p.raised]
    ELSE [st EXCEPT
             !.ax.lines = [i \in 1 .. Len(@) |-> [@[i] EXCEPT !.clip_path = p.val]],
             !.ax.others = [o \in Others |-> IF o \in ClippedOthers THEN p.val ELSE @[o]]]

axes_clip_step(st, do, x, y, gap) ==
    IF st.raised # "" \/ ~do THEN st
    ELSE set_axes_clip(st, get_axes_clip_path(x, y, gap))

\* lines 731-757 of clip_axes: the spines, then the other children
clip_spines_and_children(a, x, y, which, axes_clip, gap, dx, dy, extend) ==
    axes_clip_step(
          spine_clip(
           spine_clip(
            spine_clip(
             spine_clip([ax |-> a, raised |-> "", val |-> <<>>],
                        Truthy(x) /\ which \in {"lower", "both"}, "bottom",
                        x, Scalar(YLim[1]), "x", gap, dx, dy, extend),
             Truthy(x) /\ which \in {"high", "both"}, "top",
             x, Scalar(YLim[2]), "x", gap, dx, dy, extend),
            Truthy(y) /\ which \in {"lower", "both"}, "left",
            Scalar(XLim[1]), y, "y", gap, dx, dy, extend),
           Truthy(y) /\ which \in {"high", "both"}, "right",
           Scalar(XLim[2]), y, "y", gap, dx, dy, extend),
          axes_clip, x, y, gap)

\* a slip in clip_axes: `which` is not validated
clip_axes_unchecked(a, x, y, which, axes_clip, gap, dx, dy, extend) ==
    clip_spines_and_children(a, x, y, which, axes_clip, gap, dx, dy, extend)

clip_axes(a, x, y, which, axes_clip, gap, dx, dy, extend) ==
    IF which \notin {"lower", "upper", "both"}
    THEN [ax |-> a, raised |-> "ValueError", val |-> <<>>]
    ELSE clip_spines_and_children(a, x, y, which, axes_clip, gap, dx, dy, extend)

\* broken_and_clip_axes once add_broken_line_in_axis has answered
clip_after(broken_lines, clipped) ==
    IF clipped.raised # "" THEN clipped
    ELSE [ax |-> clipped.ax, raised |-> "", val |-> broken_lines.val]

clip_then(broken_lines, x, y, which, axes_clip, gap, dx, dy, extend) ==
    IF broken_lines.raised # "" THEN broken_lines
    ELSE clip_after(broken_lines,
                    clip_axes(broken_lines.ax, x, y, which, axes_clip, gap, dx, dy, extend))

broken_and_clip_axes(a, x, y, axes_clip, which, gap, dx, dy, extend) ==
    clip_then(add_broken_line_in_axis(a, x, y, which, gap, dx, dy),
              x, y, which, axes_clip, gap, dx, dy, extend)

-----------------------------------------------------------------------------
(* Installing scales *)

\* FuncScale / FuncScaleLog holding the closure of create_scale
FuncScale(s, mode) ==
    [name |-> IF mode = "linear" THEN "function" ELSE "functionlog",
     x0 |-> s.x0, factor |-> s.factor]

\* lines 150-153: ax.set_xscale(scale) / ax.set_yscale(scale), unless
\* create_scale raised
set_scale(a, s, axis, mode) ==
    IF ~s.ok THEN [ax |-> a, raised |-> "ValueError", val |-> <<>>]
    ELSE [ax |-> IF axis = "x" THEN [a EXCEPT !.xscale = FuncScale(s, mode)]
                 ELSE IF axis = "y" THEN [a EXCEPT !.yscale = FuncScale(s, mode)]
                 ELSE a,
          raised |-> "", val |-> <<>>]

scale_axis(a, ivs, axis, mode) ==
    IF axis \notin {"x", "y"} THEN [ax |-> a, raised |-> "ValueError", val |-> <<>>]
    ELSE set_scale(a, create_scale(ivs), axis, mode)

\* lines 599-600 of scale_axes, after the x axis has been dealt with
scale_y_after(sx, y_interval, mode) ==
    IF sx.raised # "" THEN sx
    ELSE IF y_interval # <<>> THEN scale_axis(sx.ax, y_interval, "y", mode)
    ELSE sx

\* a slip in scale_axes: the x axis is scaled without the test `if x_interval:`
scale_axes_unguarded(a, x_interval, y_interval, mode) ==
    scale_y_after(scale_axis(a, x_interval, "x", mode), y_interval, mode)

scale_axes(a, x_interval, y_interval, mode) ==
    scale_y_after(IF x_interval # <<>> THEN scale_axis(a, x_interval, "x", mode)
                  ELSE [ax |-> a, raised |-> "", val |-> <<>>],
                  y_interval, mode)

-----------------------------------------------------------------------------
(* The Axes state machine: one call of a function of the module on an Axes *)

\* the numbers of a break list: base + 1, base + 2, ...
BreakLists(base) == {List([i \in 1 .. n |-> base + i]) : n \in 0 .. MaxBreaks}

XBreaks == {None, Scalar(0), Scalar(5)} \cup BreakLists(0)

YBreaks == {None, Scalar(0), Scalar(25)} \cup BreakLists(20)

Whiches == {"lower", "upper", "both", "high"}

AxisArgs == {"x", "y", "z"}

Modes == {"linear", "log"}

\* the interval lists handed to scale_axis and scale_axes: valid (one
\* interval, two with a gap), overlapping, start = end, factor -1, factor 0,
\* and the empty list
ScaleArgs ==
    {<<>>,
     <<<<Rat(0), Rat(1), Rat(2)>>>>,
     <<<<Rat(0), Rat(1), Rat(2)>>, <<Rat(2), Rat(3), <<1, 2>>>>>>,
     <<<<Rat(0), Rat(2), Rat(2)>>, <<Rat(1), Rat(3), Rat(2)>>>>,
     <<<<Rat(1), Rat(1), Rat(2)>>>>,
     <<<<Rat(0), Rat(1), Rat(-1)>>>>,
     <<<<Rat(0), Rat(1), Rat(0)>>>>}

Gap == Rat(DefaultGap)

Dx == Rat(DefaultDx)

Dy == Rat(DefaultDy)

\* the gap, dx and dy handed to get_broken_points: the defaults, a gap of 4,
\* no slant (dx = 0, dy = 0)
Gaps == {Gap, Rat(4)}

Slants == {Zero, Dx}

\* no _forward / _inverse call made yet
NoCall == <<>>

NoArgs ==
    [fn |-> "", x |-> None, y |-> None, which |-> "", axis |-> "",
     axes_clip |-> FALSE, x_interval |-> <<>>, y_interval |-> <<>>, mode |-> "",
     gap |-> Gap, dx |-> Dx, dy |-> Dy]

\* the Axes a call finds: fresh; with a scale installed on both axes; with
\* markers drawn and clip paths set on both directions
StartAxes ==
    {NewAxes,
     scale_axes(NewAxes, <<<<Rat(0), Rat(4), Rat(2)>>>>, <<<<Rat(1), Rat(2), Rat(2)>>>>,
                "linear").ax,
     broken_and_clip_axes(NewAxes, List(<<3>>), List(<<23>>), TRUE, "both",
                          Gap, Dx, Dy, Gap).ax}

Init ==
    /\ ax \in StartAxes
    /\ pre = ax
    /\ call = NoArgs
    /\ out = Returned(<<>>)
    /\ interval = <<>>
    /\ pc = "unused"
    /\ scale = ValueError("")
    /\ fwd = NoCall
    /\ prev = NoCall
    /\ inv = NoCall

\* one call: c is the call, r what the function did to the Axes and returned
Called(c, r) ==
    /\ call = NoArgs
    /\ pre' = ax
    /\ call' = c
    /\ ax' = r.ax
    /\ out' = [raised |-> r.raised, val |-> r.val]
    /\ UNCHANGED scaleVars

\* a function that does not touch the Axes
Pure(a, r) == [ax |-> a, raised |-> r.raised, val |-> r.val]

Xy2points(x, y) ==
    Called([NoArgs EXCEPT !.fn = "xy2points", !.x = x, !.y = y],
           Pure(ax, xy2points(x, y)))

GetBrokenPoints(x, y, axis, gap, dx, dy) ==
    Called([NoArgs EXCEPT !.fn = "get_broken_points", !.x = Scalar(x),
                          !.y = Scalar(y), !.axis = axis,
                          !.gap = gap, !.dx = dx, !.dy = dy],
           Pure(ax, get_broken_points(x, y, axis, gap, dx, dy)))

AddBrokenLine(x, y, axis) ==
    Called([NoArgs EXCEPT !.fn = "add_broken_line", !.x = x, !.y = y, !.axis = axis],
           add_broken_line(ax, x, y, axis, Gap, Dx, Dy))

AddBrokenLineInAxis(x, y, which) ==
    Called([NoArgs EXCEPT !.fn = "add_broken_line_in_axis", !.x = x, !.y = y,
                          !.which = which],
           add_broken_line_in_axis(ax, x, y, which, Gap, Dx, Dy))

ClipAxes(x, y, which, axes_clip) ==
    Called([NoArgs EXCEPT !.fn = "clip_axes", !.x = x, !.y = y, !.which = which,
                          !.axes_clip = axes_clip],
           clip_axes(ax, x, y, which, axes_clip, Gap, Dx, Dy, Gap))

BrokenAndClipAxes(x, y, axes_clip, which) ==
    Called([NoArgs EXCEPT !.fn = "broken_and_clip_axes", !.x = x, !.y = y,
                          !.which = which, !.axes_clip = axes_clip],
           broken_and_clip_axes(ax, x, y, axes_clip, which, Gap, Dx, Dy, Gap))

GetAxisClipPath(x, y, axis) ==
    Called([NoArgs EXCEPT !.fn = "get_axis_clip_path", !.x = x, !.y = y, !.axis = axis],
           Pure(ax, get_axis_clip_path(x, y, axis, Gap, Dx, Dy, Gap)))

GetAxesClipPath(x, y) ==
    Called([NoArgs EXCEPT !.fn = "get_axes_clip_path", !.x = x, !.y = y],
           Pure(ax, get_axes_clip_path(x, y, Gap)))

ScaleAxis(ivs, axis, mode) ==
    Called([NoArgs EXCEPT !.fn = "scale_axis", !.x_interval = ivs, !.axis = axis,
                          !.mode = mode],
           scale_axis(ax, ivs, axis, mode))

ScaleAxes(x_interval, y_interval, mode) ==
    Called([NoArgs EXCEPT !.fn = "scale_axes", !.x_interval = x_interval,
                          !.y_interval = y_interval, !.mode = mode],
           scale_axes(ax, x_interval, y_interval, mode))

Next ==
    \/ \E x \in XBreaks, y \in YBreaks : Xy2points(x, y)
    \/ \E x \in {0, 5}, y \in {0, 25}, axis \in AxisArgs,
          gap \in Gaps, dx \in Slants, dy \in Slants :
           GetBrokenPoints(x, y, axis, gap, dx, dy)
    \/ \E x \in XBreaks, y \in YBreaks, axis \in AxisArgs : AddBrokenLine(x, y, axis)
    \/ \E x \in XBreaks, y \in YBreaks, which \in Whiches : AddBrokenLineInAxis(x, y, which)
    \/ \E x \in XBreaks, y \in YBreaks, which \in Whiches, axes_clip \in BOOLEAN :
           ClipAxes(x, y, which, axes_clip)
    \/ \E x \in XBreaks, y \in YBreaks, which \in Whiches, axes_clip \in BOOLEAN :
           BrokenAndClipAxes(x, y, axes_clip, which)
    \/ \E x \in XBreaks, y \in YBreaks, axis \in AxisArgs : GetAxisClipPath(x, y, axis)
    \/ \E x \in XBreaks, y \in YBreaks : GetAxesClipPath(x, y)
    \/ \E ivs \in ScaleArgs \ {<<>>}, axis \in AxisArgs, mode \in Modes :
           ScaleAxis(ivs, axis, mode)
    \/ \E x_interval \in ScaleArgs, y_interval \in ScaleArgs, mode \in Modes :
           ScaleAxes(x_interval, y_interval, mode)

Spec == Init /\ [][Next]_vars

-----------------------------------------------------------------------------
(* The scale state machine: create_scale on an interval list, then calls of *)
(* the two functions it returned                                            *)

InitScale ==
    /\ interval \in IntervalLists
    /\ pc = "start"
    /\ scale = ValueError("")
    /\ fwd = NoCall
    /\ prev = NoCall
    /\ inv = NoCall
    /\ ax = NewAxes
    /\ pre = NewAxes
    /\ call = NoArgs
    /\ out = Returned(<<>>)

\* create_scale(interval): raises, or returns the scale holding (x0, factor)
CreateScale ==
    /\ pc = "start"
    /\ scale' = create_scale(interval)
    /\ pc' = IF scale'.ok THEN "scaled" ELSE "raised"
    /\ UNCHANGED <<interval, fwd, prev, inv>>
    /\ UNCHANGED axesVars

\* scale.forward(x) on one sample
Forward(x) ==
    /\ pc = "scaled"
    /\ fwd' = <<x, _forward(scale, x)>>
    /\ prev' = fwd
    /\ inv' = NoCall
    /\ UNCHANGED <<interval, pc, scale>>
    /\ UNCHANGED axesVars

\* scale.inverse(y) on the image of the last sample
Inverse ==
    /\ pc = "scaled"
    /\ fwd # NoCall
    /\ inv = NoCall
    /\ inv' = <<_inverse(scale, fwd[2])>>
    /\ UNCHANGED <<interval, pc, scale, fwd, prev>>
    /\ UNCHANGED axesVars

NextScale ==
    \/ CreateScale
    \/ \E x \in Samples : Forward(x)
    \/ Inverse

SpecScale == InitScale /\ [][NextScale]_vars

-----------------------------------------------------------------------------
(* Properties of the scale *)

\* the data model of an interval list, stated on the list itself
A(i) == interval[i][1]

B(i) == interval[i][2]

F(i) == interval[i][3]

HasGap == Len(interval) >= 2 /\ RLt(B(1), A(2))

\* some interval with start >= end, with a factor <= 0, or starting before the
\* end of the one before it
InvalidIntervals(ivs) ==
    \E i \in 1 .. Len(ivs) :
        \/ RLe(ivs[i][2], ivs[i][1])
        \/ RLe(ivs[i][3], Zero)
        \/ i > 1 /\ RLt(ivs[i][1], ivs[i - 1][2])

ViolatesDataModel == InvalidIntervals(interval)

\* sum over i <= n of (b_i - a_i) * f_i
RECURSIVE ScaledWidths(_)
ScaledWidths(n) ==
    IF n = 0 THEN Zero
    ELSE RAdd(ScaledWidths(n - 1), RMul(RSub(B(n), A(n)), F(n)))

\* sum over 1 < i <= n of (a_i - b_{i-1}): the widths of the gaps before b_n
RECURSIVE GapWidths(_)
GapWidths(n) ==
    IF n <= 1 THEN Zero
    ELSE RAdd(GapWidths(n - 1), RSub(A(n), B(n - 1)))

\* C1: on every accepted interval list and every sample x (below the first
\* interval, inside one, on a breakpoint, in a gap, past the last interval),
\* _inverse(_forward(x)) = x.
C1_RoundTrip == (pc = "scaled" /\ inv # NoCall) => inv[1] = fwd[1]

\* C1 witness: a sample strictly inside the gap between two intervals has
\* been mapped forward and back.
C1_Witness ==
    /\ pc = "scaled" /\ inv # NoCall
    /\ HasGap
    /\ RLt(B(1), fwd[1]) /\ RLt(fwd[1], A(2))

\* C2: _forward is strictly increasing: of two successive calls, the one on
\* the smaller sample returns the smaller value.
C2_StrictlyIncreasing ==
    (pc = "scaled" /\ fwd # NoCall /\ prev # NoCall /\ RLt(prev[1], fwd[1]))
        => RLt(prev[2], fwd[2])

\* C2 witness: the two samples lie in two intervals on either side of a gap.
C2_Witness ==
    /\ pc = "scaled" /\ fwd # NoCall /\ prev # NoCall
    /\ HasGap
    /\ RLt(A(1), prev[1]) /\ RLt(prev[1], B(1))
    /\ RLt(A(2), fwd[1]) /\ RLt(fwd[1], B(2))

\* C3 as stated: at the end b_n of every interval,
\* _forward(b_n) = _forward(a_0) + sum over i <= n of (b_i - a_i) * f_i.
C3_CumulativeSumNoGaps ==
    (pc = "scaled" /\ fwd # NoCall) =>
        \A n \in 1 .. Len(interval) :
            fwd[1] = B(n) =>
                fwd[2] = RAdd(_forward(scale, A(1)), ScaledWidths(n))

\* C3 amended: the gaps before b_n are mapped with slope 1, so
\* _forward(b_n) = _forward(a_0) + sum over i <= n of (b_i - a_i) * f_i
\*                               + sum over 1 < i <= n of (a_i - b_{i-1}).
C3_CumulativeSum ==
    (pc = "scaled" /\ fwd # NoCall) =>
        \A n \in 1 .. Len(interval) :
            fwd[1] = B(n) =>
                fwd[2] = RAdd(RAdd(_forward(scale, A(1)), ScaledWidths(n)),
                              GapWidths(n))

\* C3 witness: _forward has been called on the end of the second of two
\* intervals separated by a gap.
C3_Witness ==
    /\ pc = "scaled" /\ fwd # NoCall
    /\ HasGap
    /\ fwd[1] = B(2)

\* C4: create_scale raises ValueError exactly when the list violates the data
\* model (start >= end, a start before the previous end, a factor <= 0), and
\* returns a scale otherwise.
C4_RaisesIffInvalid ==
    pc # "start" =>
        /\ (pc = "raised") <=> ViolatesDataModel
        /\ (pc = "scaled") <=> (scale.ok /\ scale.x0 # <<>>)

\* C4 witness: a list whose second interval starts before the end of the
\* first (both intervals well-formed on their own) has been rejected.
C4_Witness ==
    /\ pc = "raised"
    /\ Len(interval) = 2
    /\ RLt(A(1), B(1)) /\ RLt(A(2), B(2))
    /\ RLt(Zero, F(1)) /\ RLt(Zero, F(2))
    /\ RLt(A(2), B(1))

\* the two samples of two successive _forward calls, in increasing order
TwoSamples == pc = "scaled" /\ fwd # NoCall /\ prev # NoCall /\ RLt(prev[1], fwd[1])

\* both samples lie in interval n, ends included
BothInside(n) == RLe(A(n), prev[1]) /\ RLe(fwd[1], B(n))

\* both samples lie past the end of the last interval
BothPastLast == RLt(B(Len(interval)), prev[1])

\* _forward(x2) - _forward(x1) = (x2 - x1) * slope
SlopeIs(slope) == RSub(fwd[2], prev[2]) = RMul(RSub(fwd[1], prev[1]), slope)

\* C12 as stated: two samples inside interval n are mapped with slope f_n, and
\* two samples past the end of the last interval k are mapped with slope f_k.
C12_TailUsesLastIntervalFactor ==
    TwoSamples =>
        /\ \A n \in 1 .. Len(interval) : BothInside(n) => SlopeIs(F(n))
        /\ BothPastLast => SlopeIs(F(Len(interval)))

\* C12 amended: two samples inside interval n are mapped with slope f_n; two
\* samples past the end of the last interval are mapped with slope 1, whatever
\* the factor of the last interval: _forward(x2) - _forward(x1) = x2 - x1.
C12_TailHasSlopeOne ==
    TwoSamples =>
        /\ \A n \in 1 .. Len(interval) : BothInside(n) => SlopeIs(F(n))
        /\ BothPastLast => SlopeIs(One)

\* C12 witness: two samples past the end of the last of two intervals whose
\* factors differ from each other and from 1.
C12_Witness ==
    /\ TwoSamples
    /\ Len(interval) = 2
    /\ F(1) # F(2) /\ F(2) # One
    /\ BothPastLast

-----------------------------------------------------------------------------
(* Properties of the calls on the Axes *)

WhichValues == {"lower", "upper", "both"}

\* the break positions an argument stands for: none for None, one for a
\* number, those of the list for a list
Positions(a) == a.v

\* an argument that gives break positions: a number or a non-empty list
Given(a) == a.tag # "None" /\ Positions(a) # <<>>

\* the edges `which` selects for the directions that have break positions
RequestedEdges(x, y, which) ==
    {e \in Edges :
        \/ e = "bottom" /\ Given(x) /\ which \in {"lower", "both"}
        \/ e = "top" /\ Given(x) /\ which \in {"upper", "both"}
        \/ e = "left" /\ Given(y) /\ which \in {"lower", "both"}
        \/ e = "right" /\ Given(y) /\ which \in {"upper", "both"}}

\* the number of break positions on an edge
PositionsOn(e, x, y) == IF e \in {"bottom", "top"} THEN Len(Positions(x))
                        ELSE Len(Positions(y))

RECURSIVE SumOver(_, _, _)
SumOver(S, x, y) ==
    IF S = {} THEN 0
    ELSE LET e == CHOOSE e \in S : TRUE
         IN  PositionsOn(e, x, y) + SumOver(S \ {e}, x, y)

\* C5: scale_axes or scale_axis with an invalid interval list for either axis
\* raises, and both scales of the Axes are as they were before the call.
C5_InvalidIntervalInstallsNothing ==
    (/\ call.fn \in {"scale_axes", "scale_axis"}
     /\ InvalidIntervals(call.x_interval) \/ InvalidIntervals(call.y_interval))
        => /\ out.raised # ""
           /\ ax.xscale = pre.xscale
           /\ ax.yscale = pre.yscale

\* C6: xy2points on two lists returns the element-wise pairs when the lists
\* have the same length, and raises when their lengths differ.
C6_TwoListsPairwise ==
    (call.fn = "xy2points" /\ IsList(call.x) /\ IsList(call.y))
        => IF Len(call.x.v) = Len(call.y.v)
           THEN /\ out.raised = ""
                /\ out.val = [i \in 1 .. Len(call.x.v) |-> <<call.x.v[i], call.y.v[i]>>]
           ELSE out.raised # ""

\* C7: broken_and_clip_axes and clip_axes with axes_clip = True return normally
\* whatever the form of x and y (None, a number, a list), and the whole-axes
\* clip path set on the children is cut at the given positions only: not at
\* all in a direction whose argument is None.
C7_AxesClipAcceptsEveryForm ==
    (/\ call.fn \in {"broken_and_clip_axes", "clip_axes"}
     /\ call.which \in WhichValues
     /\ call.axes_clip)
        => /\ out.raised = ""
           /\ ax.others["xaxis"] =
                  grid_path(CutList(XLim, Positions(call.x), Gap),
                            CutList(YLim, Positions(call.y), Gap),
                            Len(Positions(call.x)) + 1, Len(Positions(call.y)) + 1)

\* C8: after broken_and_clip_axes with break lists in both directions, for
\* every value of `which` the edges with markers are those `which` names
\* (lower: bottom, left; upper: top, right; both: all four), and a spine was
\* given a clip path exactly if markers were drawn on its edge.
C8_MarkersAndClipsOnSameEdges ==
    (/\ call.fn = "broken_and_clip_axes"
     /\ call.which \in WhichValues
     /\ IsList(call.x) /\ Given(call.x) /\ IsList(call.y) /\ Given(call.y))
        => /\ out.raised = ""
           /\ DOMAIN out.val = RequestedEdges(call.x, call.y, call.which)
           /\ \A e \in Edges : (ax.spines[e] # pre.spines[e]) <=> (e \in DOMAIN out.val)

\* C9: a `which` outside {lower, upper, both} (add_broken_line_in_axis,
\* clip_axes, broken_and_clip_axes) or an `axis` outside {x, y} (scale_axis,
\* add_broken_line, get_broken_points) raises ValueError and leaves the Axes
\* as it was: no line added, no clip path set, no scale changed.
C9_BadEnumRaisesBeforeMutation ==
    (\/ /\ call.fn \in {"add_broken_line_in_axis", "clip_axes", "broken_and_clip_axes"}
        /\ call.which \notin WhichValues
     \/ /\ call.fn \in {"scale_axis", "add_broken_line", "get_broken_points"}
        /\ call.axis \notin {"x", "y"})
        => /\ out.raised = "ValueError"
           /\ ax = pre

\* C9 witness: clip_axes was called with which = "high", a value its spine
\* branches test for, on break lists in both directions, and raised.
C9_Witness ==
    /\ call.fn = "clip_axes"
    /\ call.which = "high"
    /\ IsList(call.x) /\ Given(call.x) /\ IsList(call.y) /\ Given(call.y)
    /\ out.raised = "ValueError"

\* C10: add_broken_line_in_axis (and broken_and_clip_axes when it returns)
\* returns a dict whose keys are exactly the requested edges: bottom / top for
\* x a number or a non-empty list, left / right for y likewise, by `which`;
\* each value holds one pair of lines per break position, and two lines per
\* break position and edge have been added to the Axes.
C10_DictKeysAreRequestedEdges ==
    (/\ call.which \in WhichValues
     /\ \/ call.fn = "add_broken_line_in_axis"
        \/ call.fn = "broken_and_clip_axes" /\ out.raised = "")
        => /\ out.raised = ""
           /\ DOMAIN out.val = RequestedEdges(call.x, call.y, call.which)
           /\ \A e \in DOMAIN out.val :
                  /\ Len(out.val[e]) = PositionsOn(e, call.x, call.y)
                  /\ \A i \in 1 .. Len(out.val[e]) :
                         /\ out.val[e][i][2] = out.val[e][i][1] + 1
                         /\ out.val[e][i][1] > Len(pre.lines)
                         /\ out.val[e][i][2] <= Len(ax.lines)
           /\ Len(ax.lines) =
                  Len(pre.lines) + 2 * SumOver(DOMAIN out.val, call.x, call.y)

\* C11: scale_axes leaves the scale of an axis whose interval list is empty
\* as it was; with both lists empty it returns without touching the Axes; with
\* one list empty and the other a valid non-empty list it returns, and the
\* Axes differs from the one before the call in the scale of the other axis
\* only, which is the scale built from that list.
C11_EmptyListIsNoOp ==
    call.fn = "scale_axes" =>
        /\ call.x_interval = <<>> => ax.xscale = pre.xscale
        /\ call.y_interval = <<>> => ax.yscale = pre.yscale
        /\ (call.x_interval = <<>> /\ call.y_interval = <<>>)
               => (out.raised = "" /\ ax = pre)
        /\ (/\ call.x_interval # <<>> /\ ~InvalidIntervals(call.x_interval)
            /\ call.y_interval = <<>>)
               => /\ out.raised = ""
                  /\ ax.xscale # pre.xscale
                  /\ ax = [pre EXCEPT !.xscale =
                               FuncScale(create_scale(call.x_interval), call.mode)]
        /\ (/\ call.y_interval # <<>> /\ ~InvalidIntervals(call.y_interval)
            /\ call.x_interval = <<>>)
               => /\ out.raised = ""
                  /\ ax.yscale # pre.yscale
                  /\ ax = [pre EXCEPT !.yscale =
                               FuncScale(create_scale(call.y_interval), call.mode)]

\* C11 witness: scale_axes was called with an empty x list and a valid y list
\* on an Axes that already had a function scale on its x axis, and returned.
C11_Witness ==
    /\ call.fn = "scale_axes"
    /\ call.x_interval = <<>>
    /\ call.y_interval # <<>> /\ ~InvalidIntervals(call.y_interval)
    /\ pre.xscale # LinearScale
    /\ out.raised = ""

\* a display position left of (below) or at another: by the data coordinate,
\* then by the offset in points (the breaks lie further apart than a gap)
ShiftedLe(p, q) == p.c < q.c \/ (p.c = q.c /\ RLe(p.o, q.o))

\* the low and the high side of cell i (0 .. m) along one direction:
\* [low, x_1 - gap/2], [x_i + gap/2, x_(i+1) - gap/2], [x_m + gap/2, high]
CellLow(i, lim, cuts) ==
    IF i = 0 THEN Shifted(lim[1], Zero) ELSE Shifted(cuts[i], Half(Gap))

CellHigh(i, lim, cuts) ==
    IF i = Len(cuts) THEN Shifted(lim[2], Zero) ELSE Shifted(cuts[i + 1], Neg(Half(Gap)))

\* the five vertices of ring r (0, 1, ...) of a path
RingAt(path, r) == [j \in 1 .. 5 |-> path.vertices[5 * r + j]]

\* a closed axis-parallel rectangle over [xl, xh] x [yl, yh]: four corners,
\* each side along one direction, back on the first vertex
IsClosedRect(ring, xl, xh, yl, yh) ==
    /\ ring[5] = ring[1]
    /\ {ring[j] : j \in 1 .. 4} = {<<xl, yl>>, <<xh, yl>>, <<xh, yh>>, <<xl, yh>>}
    /\ \A j \in 1 .. 4 : (ring[j][1] = ring[j + 1][1]) # (ring[j][2] = ring[j + 1][2])

\* C13: for a list of m x breaks and a list of n y breaks, get_axes_clip_path
\* returns (m+1)*(n+1) rings of 5 vertices with the codes MOVETO, LINETO,
\* LINETO, LINETO, CLOSEPOLY; the rings are in one-to-one correspondence with
\* the grid cells, the ring of cell (i, j) being the closed rectangle over the
\* x extent of cell i and the y extent of cell j; no extent reaches into the
\* band of gap/2 points on either side of a break.
C13_OneRectanglePerCell ==
    (call.fn = "get_axes_clip_path" /\ IsList(call.x) /\ IsList(call.y)) =>
        /\ out.raised = ""
        /\ Len(out.val.vertices) = 5 * (Len(call.x.v) + 1) * (Len(call.y.v) + 1)
        /\ Len(out.val.codes) = Len(out.val.vertices)
        /\ \A k \in 1 .. Len(out.val.codes) : out.val.codes[k] = RingCodes[((k - 1) % 5) + 1]
        /\ \A i \in 0 .. Len(call.x.v), j \in 0 .. Len(call.y.v) :
               \E r \in 0 .. (Len(out.val.vertices) \div 5) - 1 :
                   /\ IsClosedRect(RingAt(out.val, r),
                                   CellLow(i, XLim, call.x.v), CellHigh(i, XLim, call.x.v),
                                   CellLow(j, YLim, call.y.v), CellHigh(j, YLim, call.y.v))
                   /\ \A q \in 0 .. (Len(out.val.vertices) \div 5) - 1 :
                          RingAt(out.val, q) = RingAt(out.val, r) => q = r
        /\ \A r \in 0 .. (Len(out.val.vertices) \div 5) - 1, k \in 1 .. 5 :
               /\ \A b \in 1 .. Len(call.x.v) :
                      \/ ShiftedLe(RingAt(out.val, r)[k][1], Shifted(call.x.v[b], Neg(Half(Gap))))
                      \/ ShiftedLe(Shifted(call.x.v[b], Half(Gap)), RingAt(out.val, r)[k][1])
               /\ \A b \in 1 .. Len(call.y.v) :
                      \/ ShiftedLe(RingAt(out.val, r)[k][2], Shifted(call.y.v[b], Neg(Half(Gap))))
                      \/ ShiftedLe(Shifted(call.y.v[b], Half(Gap)), RingAt(out.val, r)[k][2])

\* C13 witness: get_axes_clip_path returned for two x breaks and one y break.
C13_Witness ==
    /\ call.fn = "get_axes_clip_path"
    /\ IsList(call.x) /\ Len(call.x.v) = 2
    /\ IsList(call.y) /\ Len(call.y.v) = 1
    /\ out.raised = ""
    /\ Len(out.val.vertices) = 30

\* get_axis_clip_path called for one edge: break positions (a list or a
\* number) along the axis, the position of the edge across it
OnEdge ==
    /\ call.fn = "get_axis_clip_path"
    /\ \/ call.axis = "x" /\ call.x.tag # "None" /\ IsScalar(call.y)
       \/ call.axis = "y" /\ call.y.tag # "None" /\ IsScalar(call.x)

\* the component of a point along the edge, and the one across it
Along == IF call.axis = "x" THEN 1 ELSE 2

Across == IF call.axis = "x" THEN 2 ELSE 1

\* the break positions on the edge, and the axis limits along it
EdgeBreaks == IF call.axis = "x" THEN Positions(call.x) ELSE Positions(call.y)

EdgeLim == IF call.axis = "x" THEN XLim ELSE YLim

\* the position of the edge across the axis
EdgeAt == IF call.axis = "x" THEN call.y.v[1] ELSE call.x.v[1]

\* the data point of break b, of the low end (b = 0) and of the high end
\* (b = k + 1) of the edge
EdgePoint(c) == IF call.axis = "x" THEN <<c, EdgeAt>> ELSE <<EdgeAt, c>>

\* dx and dy as get_axis_clip_path uses them: enlarged by extend
WideDx == RAdd(Dx, Gap)

WideDy == RAdd(Dy, Gap)

WideAlong == IF call.axis = "x" THEN WideDx ELSE WideDy

WideAcross == IF call.axis = "x" THEN WideDy ELSE WideDx

\* point n (1 .. 4 * rings) of the point list, read back from the rings of the
\* path: ring i holds points 4i .. 4i+3 in the order p0, p1, p3, p2, p0
PointOf(n) == out.val.vertices[5 * ((n - 1) \div 4) + <<1, 2, 4, 3>>[((n - 1) % 4) + 1]]

\* the rings and the break vertices of the claim: k + 1 closed rings with the
\* five codes, the four get_broken_points vertices of break b at points
\* 4b-2 .. 4b+1 of the list (counted from 0), every extension point on the
\* data point of its end of the edge, and the two rings at a break a full gap
\* apart along the edge
RingsAndNotches ==
    /\ out.raised = ""
    /\ Len(out.val.vertices) = 5 * (Len(EdgeBreaks) + 1)
    /\ Len(out.val.codes) = Len(out.val.vertices)
    /\ \A r \in 0 .. Len(EdgeBreaks) :
           /\ out.val.vertices[5 * r + 5] = out.val.vertices[5 * r + 1]
           /\ [j \in 1 .. 5 |-> out.val.codes[5 * r + j]]
                  = <<"MOVETO", "LINETO", "LINETO", "LINETO", "CLOSEPOLY">>
    /\ \A b \in 1 .. Len(EdgeBreaks) :
           /\ [j \in 1 .. 4 |-> PointOf(4 * b - 2 + j)]
                  = get_broken_points(EdgePoint(EdgeBreaks[b])[1], EdgePoint(EdgeBreaks[b])[2],
                                      call.axis, Gap, WideDx, WideDy).val
           /\ \A j \in 1 .. 2 :
                  /\ PointOf(4 * b + j)[Across] = PointOf(4 * b - 2 + j)[Across]
                  /\ PointOf(4 * b + j)[Along].c = PointOf(4 * b - 2 + j)[Along].c
                  /\ RSub(PointOf(4 * b + j)[Along].o, PointOf(4 * b - 2 + j)[Along].o) = Gap
    /\ \A j \in 1 .. 2 :
           /\ <<PointOf(j)[1].c, PointOf(j)[2].c>> = EdgePoint(EdgeLim[1])
           /\ <<PointOf(4 * Len(EdgeBreaks) + 2 + j)[1].c,
                PointOf(4 * Len(EdgeBreaks) + 2 + j)[2].c>> = EdgePoint(EdgeLim[2])

GapSign == <<-1, -1, 1, 1>>

SlantSign == <<-1, 1, -1, 1>>

OffsetOf(j, d, slant) ==
    RAdd(IF call.axis = d THEN RMul(Rat(GapSign[j]), RDiv(call.gap, Rat(2))) ELSE Zero,
         RMul(Rat(SlantSign[j]), slant))

TextChildren == {"title"}

PlainChildren == {"xaxis", "yaxis", "patch"}

\* after a call the lines of the Axes and the children `kids` carry the clip
\* path p; the children `kept`, and every spine that is not selected, have
\* the clip path they had before the call; no spine carries p
ClipInstalledOn(p, kids, kept) ==
    /\ Len(ax.lines) = Len(pre.lines)
    /\ \A i \in 1 .. Len(ax.lines) : ax.lines[i].clip_path = p
    /\ \A o \in kids : ax.others[o] = p
    /\ \A o \in kept : ax.others[o] = pre.others[o]
    /\ \A e \in Edges :
           /\ ax.spines[e] # p
           /\ e \notin RequestedEdges(call.x, call.y, call.which)
                  => ax.spines[e] = pre.spines[e]

\* after a call no line and no child other than a spine has a new clip path,
\* and no spine that is not selected has one
OnlySpinesClipped ==
    /\ ax.lines = pre.lines
    /\ ax.others = pre.others
    /\ \A e \in Edges :
           e \notin RequestedEdges(call.x, call.y, call.which)
               => ax.spines[e] = pre.spines[e]

=============================================================================
